---- MODULE Spec2Model ----
(***************************************************************************)
(* Model of scatterplot_isic2018.py: create_network_performance_plot, the  *)
(* single rendering pass read -> validate -> filter -> draw -> save, and   *)
(* create_sample_data, the 8-record demonstration dataset.                 *)
(*                                                                         *)
(* Numbers of the table are kept in tenths (79.6 is 796), so that the      *)
(* arithmetic of the source stays exact in the integers.                   *)
(***************************************************************************)
EXTENDS Integers, Sequences, FiniteSets, TLC

VARIABLES
    csv_table,          \* the table pd.read_csv returned (None before)
    output_path,        \* argument of the call
    pc,                 \* position of the call in the function body
    enc_i,              \* index of the for loop over encodings (1-based)
    attempts,           \* calls of pd.read_csv made so far, with their outcome
    df,                 \* local df: None or the DataFrame
    gflops_normalized,  \* local gflops_normalized (line 57)
    markers,            \* markers drawn by ax.scatter
    labels,             \* annotations drawn by ax.annotate, in draw order
    row_i,              \* index of the iterrows loop (1-based)
    limits,             \* axis limits set by set_xlim / set_ylim
    stdout,             \* lines printed so far
    files               \* image files written by plt.savefig, in write order

vars == <<csv_table, output_path, pc, enc_i, attempts, df, gflops_normalized,
          markers, labels, row_i, limits, stdout, files>>

----------------------------------------------------------------------------
(* Bounds of the model *)

\* longest table (in rows) enumerated besides the demonstration dataset
MaxRows == 2

----------------------------------------------------------------------------
(* Values *)

\* a missing cell of a text column, and of a numeric column (pandas NaN)
NaNStr == "<NaN>"
NaNNum == 0 - 1

isnan(v) == v = NaNNum

\* whether the cell v of column col is missing
isna(col, v) ==
    IF col \in {"Network", "Dataset"} THEN v = NaNStr ELSE isnan(v)

Range(s) == {s[k] : k \in 1..Len(s)}

SetMin(S) == CHOOSE m \in S : \A x \in S : m <= x
SetMax(S) == CHOOSE m \in S : \A x \in S : x <= m

\* Series.min() / Series.max(): NaN on an empty series
SeriesMin(rows, col) ==
    IF rows = <<>> THEN NaNNum ELSE SetMin({rows[k][col] : k \in 1..Len(rows)})
SeriesMax(rows, col) ==
    IF rows = <<>> THEN NaNNum ELSE SetMax({rows[k][col] : k \in 1..Len(rows)})

----------------------------------------------------------------------------
(* Constants of the source *)

encodings == <<"utf-8", "gbk", "gb2312", "utf-8-sig", "latin-1", "cp1252">>

required_columns == <<"Network", "mIoU(%)", "Params(M)", "GFLOPs">>

n_bins == 100

DefaultOutputPath == "ISIC2017_miou.png"

\* a row of a table that has the four required columns and the column Dataset
Row(n, m, p, g) ==
    [c \in {"Network", "mIoU(%)", "Params(M)", "GFLOPs", "Dataset"} |->
        CASE c = "Network"   -> n
          [] c = "mIoU(%)"   -> m
          [] c = "Params(M)" -> p
          [] c = "GFLOPs"    -> g
          [] OTHER           -> "ISIC2018"]

\* create_sample_data: the rows of the DataFrame it builds and writes
sample_data ==
    << Row("EGE-UNet",    796, 21,  12),
       Row("MALUNet",     788, 18,  21),
       Row("MobileViTv2", 787, 23,  34),
       Row("UNeXt-S",     783, 15,  28),
       Row("MobileNetv3", 777, 32,  42),
       Row("UTNetV2",     773, 128, 85),
       Row("UNet",        770, 78,  67),
       Row("TransFuse",   792, 261, 123) >>

----------------------------------------------------------------------------
(* Inputs: the tables a CSV file may hold *)

\* rows the enumerated tables are built from, besides the demonstration
\* dataset: rows with names the label rules test and names differing from
\* them only in case (two of them with equal numbers, so that a field's
\* range can be zero), and one row per missing required cell
RowPool ==
    << Row("lb-unet",       796, 21,  12),
       Row("LB-Unet",       796, 21,  12),
       Row("SELUNet(Ours)", 801, 15,  67),
       Row("selunet(ours)", 788, 18,  68),
       Row(NaNStr,          777, 32,  42),
       Row("UNet",          NaNNum, 78, 67),
       Row("MALUNet",       788, NaNNum, 21),
       Row("UNeXt-S",       783, 15,  NaNNum) >>

RowSeqs(n) ==
    UNION { { [k \in 1..len |-> RowPool[f[k]]] : f \in [1..len -> 1..Len(RowPool)] }
            : len \in 0..n }

AllColumns == required_columns \o <<"Dataset">>

\* the columns of S in file order
ColumnList(S) == SelectSeq(AllColumns, LAMBDA c : c \in S)

Project(rows, S) == [k \in 1..Len(rows) |-> [c \in S |-> rows[k][c]]]

MakeTable(S, rows) == [columns |-> ColumnList(S), rows |-> Project(rows, S)]

\* tables with exactly the required columns and up to MaxRows rows, and the
\* empty table and the demonstration dataset under every choice of columns
Tables ==
    { MakeTable(Range(required_columns), rows) : rows \in RowSeqs(MaxRows) }
    \cup
    { MakeTable(S, rows) :
        S \in SUBSET Range(AllColumns), rows \in {<<>>, sample_data} }

OutputPaths == {DefaultOutputPath, "ISIC2018_miou.png"}

\* what a failing pd.read_csv call raises under the given encoding: any
\* Exception (missing file, parse error, ...), or UnicodeDecodeError where
\* the codec has invalid byte sequences (latin-1 maps every byte)
Raisable(encoding) ==
    IF encoding = "latin-1" THEN {"Exception"}
    ELSE {"UnicodeDecodeError", "Exception"}

----------------------------------------------------------------------------
(* State after the call is entered: lines 7-18 *)

None == [encoding |-> "None", columns |-> <<>>, rows |-> <<>>]

NoLimits == [set |-> FALSE, xlim |-> <<0, 0>>, ylim |-> <<0, 0>>]

Line(kind, text, cols, n) == [kind |-> kind, text |-> text, cols |-> cols, n |-> n]

Init ==
    /\ csv_table = None
    /\ output_path \in OutputPaths
    /\ pc = "read"
    /\ enc_i = 1
    /\ attempts = <<>>
    /\ df = None
    /\ gflops_normalized = <<>>
    /\ markers = <<>>
    /\ labels = <<>>
    /\ row_i = 1
    /\ limits = NoLimits
    /\ stdout = <<>>
    /\ files = <<>>

----------------------------------------------------------------------------
(* Lines 20-29: the loop over encodings *)

\* variant: the loop without its break
AfterReadOkNoBreak == "read"

\* line 24: where control goes after a successful read (break leaves the loop)
AfterReadOk == "check_df"

\* variant: only the first except clause, other errors propagate
HandlerDecodeOnly(exc) ==
    IF exc = "UnicodeDecodeError" THEN "continue" ELSE "propagate"

\* lines 25-29: the except clauses; what the handler of the raised error does
Handler(exc) ==
    IF exc = "UnicodeDecodeError" THEN "continue" ELSE "print_continue"

\* lines 21-24: the read succeeds under encodings[enc_i]
TryReadOk ==
    /\ pc = "read"
    /\ enc_i <= Len(encodings)
    /\ \E t \in Tables :
        LET read == [encoding |-> encodings[enc_i],
                     columns |-> t.columns, rows |-> t.rows]
        IN  /\ df' = read
            /\ csv_table' = read
            /\ stdout' = Append(stdout,
                   Line("read_ok", encodings[enc_i], <<>>, Len(t.rows)))
    /\ attempts' = Append(attempts, [encoding |-> encodings[enc_i], outcome |-> "ok"])
    /\ enc_i' = enc_i + 1
    /\ pc' = AfterReadOk
    /\ UNCHANGED <<output_path, gflops_normalized, markers, labels, row_i,
                   limits, files>>

\* lines 21-22, 25-29: the read raises under encodings[enc_i]
TryReadFails ==
    /\ pc = "read"
    /\ enc_i <= Len(encodings)
    /\ \E exc \in Raisable(encodings[enc_i]) :
        /\ attempts' = Append(attempts,
               [encoding |-> encodings[enc_i], outcome |-> exc])
        /\ stdout' = IF Handler(exc) = "print_continue"
                     THEN Append(stdout, Line("read_failed", encodings[enc_i], <<>>, 0))
                     ELSE stdout
        /\ pc' = IF Handler(exc) = "propagate" THEN "raised" ELSE "read"
    /\ enc_i' = enc_i + 1
    /\ UNCHANGED <<csv_table, output_path, df, gflops_normalized, markers,
                   labels, row_i, limits, files>>

\* line 20: the list of encodings is exhausted
LoopExhausted ==
    /\ pc = "read"
    /\ enc_i > Len(encodings)
    /\ pc' = "check_df"
    /\ UNCHANGED <<csv_table, output_path, enc_i, attempts, df,
                   gflops_normalized, markers, labels, row_i, limits, stdout,
                   files>>

\* lines 31-34: no encoding read the file
ReturnUnreadable ==
    /\ pc = "check_df"
    /\ df = None
    /\ stdout' = stdout \o << Line("all_encodings_failed", "", <<>>, 0),
                              Line("check_file_format", "", <<>>, 0) >>
    /\ pc' = "returned"
    /\ UNCHANGED <<csv_table, output_path, enc_i, attempts, df,
                   gflops_normalized, markers, labels, row_i, limits, files>>

----------------------------------------------------------------------------
(* Lines 36-42: the check of the required columns *)

\* variant: the check with 'GFLOPs' left out of the required columns
missing_columns_short(columns) ==
    SelectSeq(required_columns,
              LAMBDA col : col /= "GFLOPs" /\ col \notin Range(columns))

\* line 38
missing_columns(columns) ==
    SelectSeq(required_columns, LAMBDA col : col \notin Range(columns))

ReturnMissingColumns ==
    /\ pc = "check_df"
    /\ df /= None
    /\ missing_columns(df.columns) /= <<>>
    /\ stdout' = stdout \o
           << Line("missing_columns", "", missing_columns(df.columns), 0),
              Line("existing_columns", "", df.columns, 0) >>
    /\ pc' = "returned"
    /\ UNCHANGED <<csv_table, output_path, enc_i, attempts, df,
                   gflops_normalized, markers, labels, row_i, limits, files>>

----------------------------------------------------------------------------
(* Lines 45-57: dropna, the figure, the colormap, the normalized series *)

\* variant: dropna(how='all'), dropping only rows with every required cell missing
dropna_all(rows) ==
    SelectSeq(rows, LAMBDA row : \E col \in Range(required_columns) : ~isna(col, row[col]))

\* line 45: df.dropna(subset=required_columns)
dropna(rows) ==
    SelectSeq(rows, LAMBDA row : \A col \in Range(required_columns) : ~isna(col, row[col]))

\* variant: a division that raises ZeroDivisionError on a zero divisor
SeriesDivRaisesOnZero(divisor) == divisor = 0

\* line 57: a division of float series yields NaN or inf on a zero divisor
\* and raises nothing
SeriesDivRaises(divisor) == FALSE

SeriesDiv(a, b) ==
    IF b = 0 THEN [nan |-> a = 0, inf |-> a /= 0, num |-> 0, den |-> 1]
    ELSE [nan |-> FALSE, inf |-> FALSE, num |-> a, den |-> b]

Preprocess ==
    /\ pc = "check_df"
    /\ df /= None
    /\ missing_columns(df.columns) = <<>>
    /\ IF ~(Range(required_columns) \subseteq Range(df.columns))
       THEN \* line 45 raises KeyError for a column that is not in df
            /\ pc' = "raised"
            /\ UNCHANGED <<df, gflops_normalized>>
       ELSE LET kept == dropna(df.rows)
                lo == SeriesMin(kept, "GFLOPs")
                hi == SeriesMax(kept, "GFLOPs")
            IN  /\ df' = [df EXCEPT !.rows = kept]
                /\ IF SeriesDivRaises(hi - lo)
                   THEN /\ pc' = "raised"
                        /\ UNCHANGED gflops_normalized
                   ELSE /\ pc' = "scatter"
                        /\ gflops_normalized' =
                              [k \in 1..Len(kept) |->
                                  SeriesDiv(kept[k]["GFLOPs"] - lo, hi - lo)]
    /\ UNCHANGED <<csv_table, output_path, enc_i, attempts, markers, labels,
                   row_i, limits, stdout, files>>

----------------------------------------------------------------------------
(* Lines 52-54, 60-62: the scatter and its colors *)

\* variant: the gradient applied in reverse
ColorIndexReversed(c, vmin, vmax) ==
    IF vmin = vmax THEN n_bins - 1
    ELSE LET q == ((c - vmin) * n_bins) \div (vmax - vmin)
         IN  IF q >= n_bins THEN 0 ELSE n_bins - 1 - q

\* lines 54, 61: the step of the n_bins-step colormap that value c takes
\* when the colors are scaled over [vmin, vmax], the minimum and maximum of
\* the c series: (c - vmin) / (vmax - vmin), or 0 when vmin = vmax, times
\* n_bins, truncated, with 1.0 taking the last step.  The source computes
\* this in floating point; the integers here are exact.
ColorIndex(c, vmin, vmax) ==
    IF vmin = vmax THEN 0
    ELSE LET q == ((c - vmin) * n_bins) \div (vmax - vmin)
         IN  IF q >= n_bins THEN n_bins - 1 ELSE q

\* lines 60-62: one marker per row of df, at (Params(M), mIoU(%))
Scatter ==
    /\ pc = "scatter"
    /\ LET vmin == SeriesMin(df.rows, "GFLOPs")
           vmax == SeriesMax(df.rows, "GFLOPs")
       IN  markers' = [k \in 1..Len(df.rows) |->
                          [x |-> df.rows[k]["Params(M)"],
                           y |-> df.rows[k]["mIoU(%)"],
                           c |-> df.rows[k]["GFLOPs"],
                           index |-> ColorIndex(df.rows[k]["GFLOPs"], vmin, vmax)]]
    /\ row_i' = 1
    /\ pc' = "annotate"
    /\ UNCHANGED <<csv_table, output_path, enc_i, attempts, df,
                   gflops_normalized, labels, limits, stdout, files>>

----------------------------------------------------------------------------
(* Lines 65-100: the labels *)

\* str.lower() on the names of the model
Lower(name) ==
    CASE name = "LB-Unet"       -> "lb-unet"
      [] name = "TransFuse"     -> "transfuse"
      [] name = "SELUNet(Ours)" -> "selunet(ours)"
      [] OTHER                  -> name

\* variant: the names compared without regard to case
PlacementIgnoreCase(network_name) ==
    IF Lower(network_name) \in {"lb-unet", "transfuse"}
    THEN [offset_x |-> 125, offset_y |-> 0 - 150, ha |-> "right", va |-> "center"]
    ELSE [offset_x |-> 125, offset_y |-> 91, ha |-> "left", va |-> "bottom"]

\* lines 69-86: offset (in tenths of a point) and anchor chosen by name
Placement(network_name) ==
    IF network_name = "LB-Unet"
    THEN [offset_x |-> 125, offset_y |-> 0 - 150, ha |-> "right", va |-> "center"]
    ELSE IF network_name = "TransFuse"
    THEN [offset_x |-> 125, offset_y |-> 0 - 150, ha |-> "right", va |-> "center"]
    ELSE [offset_x |-> 125, offset_y |-> 91, ha |-> "left", va |-> "bottom"]

\* variant: the sentinel compared without regard to case
text_color_ignore_case(network_name) ==
    IF Lower(network_name) = "selunet(ours)" THEN "red" ELSE "black"

\* line 89
text_color(network_name) ==
    IF network_name = "SELUNet(Ours)" THEN "red" ELSE "black"

\* variant: the annotate call given the anchor computed per name
AnnotateAnchorComputed(ha, va) == [ha |-> ha, va |-> va]

\* lines 99-100: the anchor the annotate call is given
AnnotateAnchor(ha, va) == [ha |-> "left", va |-> "bottom"]

\* lines 65-100: one iteration of the loop over df.iterrows()
Annotate ==
    /\ pc = "annotate"
    /\ row_i <= Len(df.rows)
    /\ LET row == df.rows[row_i]
           place == Placement(row["Network"])
           anchor == AnnotateAnchor(place.ha, place.va)
       IN  /\ stdout' = stdout \o
                  ( << Line("processing", row["Network"], <<>>, 0) >> \o
                    IF row["Network"] = "LB-Unet"
                    THEN << Line("special_position", "", <<>>, 0) >>
                    ELSE << >> )
           /\ labels' = Append(labels,
                  [text |-> row["Network"],
                   xy |-> <<row["Params(M)"], row["mIoU(%)"]>>,
                   xytext |-> <<place.offset_x, place.offset_y>>,
                   color |-> text_color(row["Network"]),
                   ha |-> anchor.ha,
                   va |-> anchor.va])
    /\ row_i' = row_i + 1
    /\ UNCHANGED <<csv_table, output_path, pc, enc_i, attempts, df,
                   gflops_normalized, markers, limits, files>>

----------------------------------------------------------------------------
(* Lines 103-131: axes, limits, colorbar, layout *)

\* set_xlim / set_ylim refuse a limit that is NaN (ValueError)
LimitsRaise(lo, hi) == isnan(lo) \/ isnan(hi)

\* lines 103-131.  xlim is kept in hundredths and ylim in two-hundredths, so
\* that the margins of 0.1 and 0.05 of the range are integers.
Decorate ==
    /\ pc = "annotate"
    /\ row_i > Len(df.rows)
    /\ LET xmin == SeriesMin(df.rows, "Params(M)")
           xmax == SeriesMax(df.rows, "Params(M)")
           ymin == SeriesMin(df.rows, "mIoU(%)")
           ymax == SeriesMax(df.rows, "mIoU(%)")
           x_margin == xmax - xmin
           y_margin == ymax - ymin
       IN  IF LimitsRaise(xmin, xmax) \/ LimitsRaise(ymin, ymax)
           THEN /\ pc' = "raised"
                /\ UNCHANGED limits
           ELSE /\ pc' = "save"
                /\ limits' = [set |-> TRUE,
                              xlim |-> <<10 * xmin - x_margin, 10 * xmax + x_margin>>,
                              ylim |-> <<20 * ymin - y_margin, 20 * ymax + y_margin>>]
    /\ UNCHANGED <<csv_table, output_path, enc_i, attempts, df,
                   gflops_normalized, markers, labels, row_i, stdout, files>>

----------------------------------------------------------------------------
(* Lines 134-139: save and show *)

\* variant: the path argument ignored
SavePathDefault(path) == DefaultOutputPath

\* line 134: the path plt.savefig is given
SavePath(path) == path

Save ==
    /\ pc = "save"
    /\ files' = Append(files, SavePath(output_path))
    /\ stdout' = Append(stdout, Line("saved", SavePath(output_path), <<>>, 0))
    /\ pc' = "show"
    /\ UNCHANGED <<csv_table, output_path, enc_i, attempts, df,
                   gflops_normalized, markers, labels, row_i, limits>>

Show ==
    /\ pc = "show"
    /\ pc' = "done"
    /\ UNCHANGED <<csv_table, output_path, enc_i, attempts, df,
                   gflops_normalized, markers, labels, row_i, limits, stdout,
                   files>>

----------------------------------------------------------------------------

Next ==
    \/ TryReadOk
    \/ TryReadFails
    \/ LoopExhausted
    \/ ReturnUnreadable
    \/ ReturnMissingColumns
    \/ Preprocess
    \/ Scatter
    \/ Annotate
    \/ Decorate
    \/ Save
    \/ Show

Spec == Init /\ [][Next]_vars

----------------------------------------------------------------------------
(* Properties *)

LastTwo(s) == SubSeq(s, Len(s) - 1, Len(s))

\* the table was read and has the four required columns
Validated ==
    /\ csv_table /= None
    /\ Range(required_columns) \subseteq Range(csv_table.columns)

\* the required columns the table read does not have
Absent == {col \in Range(required_columns) : col \notin Range(csv_table.columns)}

\* the rows of the table read in which all four required cells are present
CompleteIdx ==
    {k \in 1..Len(csv_table.rows) :
        \A col \in Range(required_columns) : ~isna(col, csv_table.rows[k][col])}

\* the position of row j among the rows idx, taken in the order of the table
Rank(idx, j) == Cardinality({i \in idx : i <= j})

NothingDrawn == markers = <<>> /\ labels = <<>> /\ ~limits.set

AllDrawn ==
    \/ pc \in {"save", "show", "done"}
    \/ pc = "annotate" /\ row_i > Len(df.rows)

\* C1: a table read with some required column absent makes the call return
\* early: nothing is drawn, nothing is saved, and the two lines printed last
\* list exactly the absent required columns and the columns of the table.
C1_MissingColumnsReturn ==
    (csv_table /= None /\ Absent /= {}) =>
        /\ pc \in {"check_df", "returned"}
        /\ NothingDrawn
        /\ files = <<>>
        /\ pc = "returned" =>
              /\ Len(stdout) >= 2
              /\ LET said == LastTwo(stdout)
                 IN  /\ said[1].kind = "missing_columns"
                     /\ Range(said[1].cols) = Absent
                     /\ Len(said[1].cols) = Cardinality(Absent)
                     /\ said[2].kind = "existing_columns"
                     /\ said[2].cols = csv_table.columns

C1_Witness ==
    /\ pc = "returned"
    /\ csv_table /= None
    /\ Absent = {"GFLOPs"}
    /\ Len(csv_table.rows) = Len(sample_data)
    /\ LastTwo(stdout)[1].cols = <<"GFLOPs">>

\* no read attempted so far succeeded
NoneSucceeded == \A k \in 1..Len(attempts) : attempts[k].outcome /= "ok"

AllFailed == Len(attempts) = Len(encodings) /\ NoneSucceeded

\* C2: as long as every read attempted has failed, whatever each attempt
\* raised, the call does not raise and reaches no validation, drawing or
\* save; it leaves the loop only with all encodings tried, and then prints
\* its diagnostic and returns.
C2_UnreadableReturns ==
    NoneSucceeded =>
        /\ pc \in {"read", "check_df", "returned"}
        /\ pc \in {"check_df", "returned"} => AllFailed
        /\ df = None
        /\ csv_table = None
        /\ NothingDrawn
        /\ files = <<>>
        /\ \A k \in 1..Len(stdout) :
              stdout[k].kind \notin {"missing_columns", "existing_columns"}
        /\ pc = "returned" =>
              /\ Len(stdout) >= 2
              /\ LastTwo(stdout)[1].kind = "all_encodings_failed"
              /\ LastTwo(stdout)[2].kind = "check_file_format"

C2_Witness ==
    /\ AllFailed
    /\ pc = "returned"
    /\ \E k \in 1..Len(attempts) : attempts[k].outcome = "UnicodeDecodeError"
    /\ \E k \in 1..Len(attempts) : attempts[k].outcome = "Exception"

\* C3: the encodings are tried in the order of the list, each at most once,
\* no read is attempted after a successful one, and the table in use is the
\* one read by the only successful attempt, the last one made.
C3_FirstSuccessWins ==
    /\ Len(attempts) <= Len(encodings)
    /\ \A k \in 1..Len(attempts) : attempts[k].encoding = encodings[k]
    /\ \A k \in 1..(Len(attempts) - 1) : attempts[k].outcome /= "ok"
    /\ df /= None =>
          /\ attempts /= <<>>
          /\ attempts[Len(attempts)].outcome = "ok"
          /\ df.encoding = attempts[Len(attempts)].encoding
          /\ df.columns = csv_table.columns
    /\ df = None => \A k \in 1..Len(attempts) : attempts[k].outcome /= "ok"

C3_Witness ==
    /\ pc = "done"
    /\ df.encoding = "gb2312"
    /\ Len(attempts) = 3
    /\ attempts[1].outcome = "UnicodeDecodeError"
    /\ attempts[2].outcome = "Exception"

\* C4: once the table is validated and drawn, the markers and the labels
\* are exactly the rows with all four required cells present, one marker
\* and one label each, in the order of the table.
C4_RenderedAreCompleteRows ==
    (Validated /\ pc \in {"annotate", "save", "show", "done"}) =>
        LET idx == CompleteIdx
            rows == csv_table.rows
        IN  /\ Len(markers) = Cardinality(idx)
            /\ \A j \in idx :
                  LET m == markers[Rank(idx, j)]
                  IN  /\ m.x = rows[j]["Params(M)"]
                      /\ m.y = rows[j]["mIoU(%)"]
                      /\ m.c = rows[j]["GFLOPs"]
            /\ AllDrawn =>
                  /\ Len(labels) = Cardinality(idx)
                  /\ \A j \in idx : labels[Rank(idx, j)].text = rows[j]["Network"]

C4_Witness ==
    /\ Validated
    /\ pc = "done"
    /\ Len(csv_table.rows) = 2
    /\ CompleteIdx = {2}
    /\ Len(markers) = 1
    /\ labels[1].text = csv_table.rows[2]["Network"]

\* C5: a validated table with at least one complete row never makes the
\* call raise or stop before the end, also with a single row or a field of
\* zero range: every step short of the end has a next step, and at the end
\* the file is saved.
C5_RenderingCompletes ==
    (Validated /\ CompleteIdx /= {}) =>
        /\ pc /= "raised"
        /\ pc /= "returned"
        /\ pc /= "done" => ENABLED Next
        /\ pc = "done" => files = <<output_path>>

C5_Witness ==
    /\ Validated
    /\ pc = "done"
    /\ Len(df.rows) = 1
    /\ gflops_normalized[1].nan
    /\ limits.xlim[1] = limits.xlim[2]
    /\ files = <<output_path>>

\* C6: the save happens at most once, at the given path, only after a
\* successful read and validation and after every marker and label is
\* drawn; a call that ends normally after drawing has written exactly one
\* file, a call that returned early or raised has written none.
C6_SingleSave ==
    /\ Len(files) <= 1
    /\ files /= <<>> =>
          /\ files = <<output_path>>
          /\ Validated
          /\ df /= None
          /\ Len(markers) = Len(df.rows)
          /\ Len(labels) = Len(df.rows)
          /\ limits.set
          /\ pc \in {"show", "done"}
    /\ pc \in {"show", "done"} => Len(files) = 1
    /\ pc \in {"returned", "raised"} => files = <<>>

C6_Witness ==
    /\ pc = "done"
    /\ output_path /= DefaultOutputPath
    /\ files = <<output_path>>
    /\ Len(labels) = 2

MinC == SetMin({markers[k].c : k \in 1..Len(markers)})
MaxC == SetMax({markers[k].c : k \in 1..Len(markers)})

Monotonic ==
    \A a, b \in 1..Len(markers) :
        markers[a].c < markers[b].c => markers[a].index <= markers[b].index

DefaultOffset == <<125, 91>>
SpecialOffset == <<125, 0 - 150>>

IsSampleData ==
    /\ Validated
    /\ Len(csv_table.rows) = Len(sample_data)
    /\ \A k \in 1..Len(sample_data) : \A col \in Range(required_columns) :
          csv_table.rows[k][col] = sample_data[k][col]

\* C8: the k-th label belongs to the k-th rendered record: its text is the
\* record's name, its point is the record's (Params(M), mIoU(%)), and its
\* offset is (12.5, -15) exactly for the names 'LB-Unet' and 'TransFuse'
\* and (12.5, 9.1) for any other; on the demonstration dataset there are 8
\* markers, 'TransFuse' alone has the special offset.
C8_LabelOffsets ==
    /\ \A k \in 1..Len(labels) :
          /\ k <= Len(df.rows)
          /\ labels[k].text = df.rows[k]["Network"]
          /\ labels[k].xy = <<df.rows[k]["Params(M)"], df.rows[k]["mIoU(%)"]>>
          /\ labels[k].xytext =
                IF labels[k].text \in {"LB-Unet", "TransFuse"}
                THEN SpecialOffset ELSE DefaultOffset
    /\ (IsSampleData /\ AllDrawn) =>
          /\ Len(markers) = 8
          /\ Len(labels) = 8
          /\ \A k \in 1..8 :
                /\ markers[k].x = sample_data[k]["Params(M)"]
                /\ markers[k].y = sample_data[k]["mIoU(%)"]
                /\ labels[k].xytext = SpecialOffset <=> labels[k].text = "TransFuse"
          /\ Cardinality({k \in 1..8 : labels[k].xytext = DefaultOffset}) = 7

C8_Witness ==
    /\ pc = "done"
    /\ Len(labels) = 2
    /\ labels[1].text = "lb-unet"
    /\ labels[1].xytext = DefaultOffset
    /\ labels[2].text = "LB-Unet"
    /\ labels[2].xytext = SpecialOffset

C10_ConstantAnchor ==
    \A k \in 1..Len(labels) :
        /\ labels[k].ha = "left"
        /\ labels[k].va = "bottom"
        /\ labels[k].text \in {"LB-Unet", "TransFuse"} =>
              /\ Placement(labels[k].text).ha = "right"
              /\ Placement(labels[k].text).va = "center"

C10_Witness ==
    /\ Len(labels) = 2
    /\ labels[1].text = "LB-Unet"
    /\ Placement(labels[1].text).ha = "right"
    /\ labels[1].ha = "left"
    /\ labels[2].text = "lb-unet"

====
